---- MODULE Spec2Model ----
(***************************************************************************)
(* Model of backhand-async: unsquash_tpcii_blocking (src/src/lib.rs) and   *)
(* unsquash_tpcii_async (src/src/async_unsquash.rs).  One extract call is  *)
(* a state machine: existence check, filter expansion, archive open, node  *)
(* selection, and the materialization of the selected nodes by a rayon     *)
(* worker pool (blocking) or by a FuturesUnordered fan-out (async).        *)
(***************************************************************************)
EXTENDS Integers, Sequences, FiniteSets, TLC

\* ------------------------------------------------------------------ bounds
NumWorkers == 2
MaxFaults == 1
MaxRuns == 2

\* --------------------------------------------------------- mode constants
\* Permissions::from_mode(0o644), Permissions::from_mode(0o755)
Mode644 == 420
Mode755 == 493

\* ------------------------------------------------------------------ paths
\* std::path::Path, as Path compares it: rooted or not, plus its components.
PathOf(abs, comps) == [absolute |-> abs, components |-> comps]
Abs(comps) == PathOf(TRUE, comps)
Rel(comps) == PathOf(FALSE, comps)

\* Path::join: an absolute argument replaces the base.
Join(base, p) ==
    IF p.absolute THEN p
    ELSE PathOf(base.absolute, base.components \o p.components)

\* Path::ancestors: the path itself, its parent, ... down to "/" (or "").
Ancestors(p) ==
    { PathOf(p.absolute, SubSeq(p.components, 1, k)) : k \in 0..Len(p.components) }

\* Path::parent
Parent(p) == PathOf(p.absolute, SubSeq(p.components, 1, Len(p.components) - 1))

\* path.strip_prefix(Component::RootDir).unwrap_or(path)
StripRootDir(p) == IF p.absolute THEN Rel(p.components) ELSE p

\* ---------------------------------------------------------------- archive
File(data) == [kind |-> "File", data |-> data, link |-> ""]
Symlink(link) == [kind |-> "Symlink", data |-> <<>>, link |-> link]
Dir == [kind |-> "Dir", data |-> <<>>, link |-> ""]
CharacterDevice == [kind |-> "CharacterDevice", data |-> <<>>, link |-> ""]
BlockDevice == [kind |-> "BlockDevice", data |-> <<>>, link |-> ""]
NamedPipe == [kind |-> "NamedPipe", data |-> <<>>, link |-> ""]
Socket == [kind |-> "Socket", data |-> <<>>, link |-> ""]

Node(comps, inner) == [fullpath |-> Abs(comps), inner |-> inner]

\* The archives an extract call is run on, each in its native iteration order.
Archives ==
    { << Node(<<"index", "foo">>, File(<<1, 2>>)),
         Node(<<"salts", "foo">>, File(<<>>)),
         Node(<<"etc">>, File(<<3>>)) >>,
      << Node(<<"index", "foo">>, File(<<1>>)),
         Node(<<"salts", "foo">>, Socket) >>,
      << Node(<<"index">>, CharacterDevice),
         Node(<<"salts">>, BlockDevice),
         Node(<<"etc">>, NamedPipe) >>,
      << Node(<<"index">>, Dir),
         Node(<<"index", "foo">>, Symlink("/etc/passwd")),
         Node(<<"salts", "foo">>, Symlink("missing")),
         Node(<<"index", "bar">>, File(<<2>>)) >>,
      << Node(<<>>, Dir),
         Node(<<"salts">>, Dir),
         Node(<<"salts", "bar">>, File(<<1, 2>>)) >> }

\* ------------------------------------------------------------ name filter
\* A crate name is a string; Path::new("/index").join(&krate) reads it as a path.
Crates == { Rel(<<"foo">>), Rel(<<"bar">>), Abs(<<"etc">>) }

None == [some |-> FALSE, val |-> {}]
Some(v) == [some |-> TRUE, val |-> v]

Filters == {None} \cup { Some(s) : s \in SUBSET Crates }

\* lib.rs 25-41 / async_unsquash.rs 24-40
ExpandKrate(krate) ==
    LET index_path == Join(Abs(<<"index">>), krate)
        salt_path == Join(Abs(<<"salts">>), krate)
    IN Ancestors(index_path) \cup Ancestors(salt_path)

ExpandFilter(filter) ==
    IF filter.some
    THEN Some(UNION { ExpandKrate(krate) : krate \in filter.val })
    ELSE None

\* Selection by prefix instead of by membership.
SelectedByPrefix(node, filter) ==
    IF filter.some
    THEN \E p \in filter.val : p \in Ancestors(node.fullpath)
    ELSE TRUE

\* lib.rs 57-65 / async_unsquash.rs 61-69
Selected(node, filter) ==
    IF filter.some THEN node.fullpath \in filter.val ELSE TRUE

SelectNodes(files, filter) ==
    SelectSeq(files, LAMBDA node : Selected(node, filter))

\* ------------------------------------------------------- destination tree
dest == Abs(<<"dest">>)

DirObj(mode) == [kind |-> "dir", mode |-> mode, data |-> <<>>, link |-> ""]
FileObj(mode, data) == [kind |-> "file", mode |-> mode, data |-> data, link |-> ""]
\* symlink(2) makes the link with mode 0o777
LinkObj(link) == [kind |-> "link", mode |-> 511, data |-> <<>>, link |-> link]

\* The host tree before the first call: only "/" exists.
InitFs == (Abs(<<>>) :> DirObj(Mode755))

Exists(f, p) == p \in DOMAIN f
IsDir(f, p) == Exists(f, p) /\ f[p].kind = "dir"
IsSymlink(f, p) == Exists(f, p) /\ f[p].kind = "link"

\* The process umask is 0o022 (18) or 0o077 (63): open(2) creates a file with
\* 0o666 & ~umask, mkdir(2) a directory with 0o777 & ~umask.
Umasks == {18, 63}
FileCreateMode(um) == IF um = 18 THEN 420 ELSE 384
DirCreateMode(um) == IF um = 18 THEN 493 ELSE 448

Put(f, p, obj) == (p :> obj) @@ f

Ok(f) == [ok |-> TRUE, fs |-> f]
Err(f) == [ok |-> FALSE, fs |-> f]

\* std::fs::create_dir_all: every missing ancestor is made, an existing
\* directory is not an error, anything else in the way is.
RECURSIVE CreateDirAllFrom(_, _, _, _)
CreateDirAllFrom(f, p, k, um) ==
    IF k > Len(p.components) THEN Ok(f)
    ELSE LET q == PathOf(p.absolute, SubSeq(p.components, 1, k))
         IN IF Exists(f, q)
            THEN IF f[q].kind = "dir"
                 THEN CreateDirAllFrom(f, p, k + 1, um)
                 ELSE Err(f)
            ELSE CreateDirAllFrom(Put(f, q, DirObj(DirCreateMode(um))), p, k + 1, um)

CreateDirAll(f, p, um) == CreateDirAllFrom(f, p, 0, um)

\* std::fs::File::create: O_CREAT | O_TRUNC.  An existing file is truncated
\* and keeps its mode; a directory in the way is EISDIR; a link in the way is
\* followed out of the destination tree, where the archives' targets
\* ("/etc/passwd", a dangling name) cannot be created.
FileCreate(f, p, um) ==
    IF ~IsDir(f, Parent(p)) THEN Err(f)
    ELSE IF ~Exists(f, p) THEN Ok(Put(f, p, FileObj(FileCreateMode(um), <<>>)))
    ELSE IF f[p].kind = "file" THEN Ok(Put(f, p, [f[p] EXCEPT !.data = <<>>]))
    ELSE Err(f)

\* Bytes reaching the file through the BufWriter's descriptor.
WriteBytes(f, p, bytes) ==
    IF Exists(f, p) /\ f[p].kind = "file"
    THEN Put(f, p, [f[p] EXCEPT !.data = @ \o bytes])
    ELSE f

\* A symlink that refuses a target it cannot find.
SymlinkCreateValidated(f, link, p) ==
    IF Exists(f, p) \/ ~IsDir(f, Parent(p)) \/ link = "missing" THEN Err(f)
    ELSE Ok(Put(f, p, LinkObj(link)))

\* std::os::unix::fs::symlink: EEXIST when anything is at the path already.
SymlinkCreate(f, link, p) ==
    IF Exists(f, p) \/ ~IsDir(f, Parent(p)) THEN Err(f)
    ELSE Ok(Put(f, p, LinkObj(link)))

\* std::fs::set_permissions: chmod(2), which follows a link (out of the tree).
SetPermissions(f, p, mode) ==
    IF Exists(f, p) /\ f[p].kind # "link"
    THEN Ok(Put(f, p, [f[p] EXCEPT !.mode = mode]))
    ELSE Err(f)

\* lchmod: ensure!(path.is_symlink()), then fchmodat(.., NoFollowSymlink).
\* Whether the host changes a link's mode is up to the platform (Linux answers
\* EOPNOTSUPP): a refusal is one of the failures Outcomes gives BlockingLchmod.
lchmod(f, p, mode) ==
    IF IsSymlink(f, p)
    THEN Ok(Put(f, p, [f[p] EXCEPT !.mode = mode]))
    ELSE Err(f)

\* The destination path without the strip of the root separator: an absolute
\* fullpath replaces the destination root.
DestPathUnstripped(node) == Join(dest, node.fullpath)

\* lib.rs 78-80 / async_unsquash.rs 88-90
DestPath(node) == Join(dest, StripRootDir(node.fullpath))

\* ------------------------------------------------------------------ state
VARIABLES
    strategy,        \* "blocking" (lib.rs) or "async" (async_unsquash.rs)
    squashfs_exists, \* what the existence check of the archive path answers
    squashfs_opens,  \* whether File::open / Squashfs::from_reader succeed
    files,           \* filesystem.files(): the archive's entry sequence
    name_filter,     \* the caller's crates_filter argument
    umask,           \* the process umask
    pc,              \* position of the extract call
    crates_filter,   \* the expanded filter (the shadowing let of line 25)
    opened,          \* an open of the archive was attempted in this call
    nodes,           \* the selected entries
    units,           \* per selected entry: position, BufWriter content, error
    full,            \* rayon's try_for_each stop flag
    fs,              \* the host tree holding the destination
    result,          \* what the call returned
    first_failure,   \* index of the unit that failed first in this call, or 0
    faults,          \* I/O failures the environment has produced so far
    run,             \* number of the call on this destination
    prev_tree        \* the host tree when this call began

inputs == <<strategy, squashfs_exists, squashfs_opens, files, name_filter, umask>>
vars == <<strategy, squashfs_exists, squashfs_opens, files, name_filter, umask,
          pc, crates_filter, opened, nodes, units, full, fs, result,
          first_failure, faults, run, prev_tree>>

NoResult == [tag |-> "None", msg |-> "", node |-> 0]
OkResult == [tag |-> "Ok", msg |-> "", node |-> 0]
ErrResult(msg, i) == [tag |-> "Err", msg |-> msg, node |-> i]
PanicResult(i) == [tag |-> "Panic", msg |-> "not implemented", node |-> i]

Unit(upc, buf, msg) == [pc |-> upc, buf |-> buf, msg |-> msg]

Init ==
    /\ strategy \in {"blocking", "async"}
    /\ squashfs_exists \in BOOLEAN
    /\ squashfs_opens \in IF squashfs_exists THEN BOOLEAN ELSE {FALSE}
    /\ files \in Archives
    /\ name_filter \in Filters
    /\ umask \in Umasks
    /\ pc = "ensure"
    /\ crates_filter = None
    /\ opened = FALSE
    /\ nodes = <<>>
    /\ units = <<>>
    /\ full = FALSE
    /\ fs = InitFs
    /\ result = NoResult
    /\ first_failure = 0
    /\ faults = 0
    /\ run = 1
    /\ prev_tree = InitFs

\* An I/O step fails when the environment makes it fail.
Outcomes == IF faults < MaxFaults THEN {"ok", "fault"} ELSE {"ok"}

Return(r) ==
    /\ result' = r
    /\ pc' = "done"

\* The call without its existence check.
EnsureExistsSkipped ==
    /\ pc = "ensure"
    /\ pc' = "filter"
    /\ UNCHANGED <<inputs, crates_filter, opened, nodes, units, full, fs, result,
                   first_failure, faults, run, prev_tree>>

\* lib.rs 19-23 / async_unsquash.rs 18-22: anyhow::ensure!(path exists)
EnsureExists ==
    /\ pc = "ensure"
    /\ IF squashfs_exists
       THEN pc' = "filter" /\ result' = result
       ELSE Return(ErrResult("specified squashfs archive does not exist", 0))
    /\ UNCHANGED <<inputs, crates_filter, opened, nodes, units, full, fs,
                   first_failure, faults, run, prev_tree>>

\* BuildFilter without the early return of lines 43-45.
BuildFilterNoShortCircuit ==
    /\ pc = "filter"
    /\ crates_filter' = ExpandFilter(name_filter)
    /\ pc' = "open"
    /\ UNCHANGED <<inputs, opened, nodes, units, full, fs, result,
                   first_failure, faults, run, prev_tree>>

\* lib.rs 25-45 / async_unsquash.rs 24-44: expand, return Ok(()) when empty
BuildFilter ==
    /\ pc = "filter"
    /\ crates_filter' = ExpandFilter(name_filter)
    /\ IF crates_filter'.some /\ crates_filter'.val = {}
       THEN Return(OkResult)
       ELSE pc' = "open" /\ result' = result
    /\ UNCHANGED <<inputs, opened, nodes, units, full, fs,
                   first_failure, faults, run, prev_tree>>

\* lib.rs 47-55 / async_unsquash.rs 46-59: open and decode the archive
OpenArchive ==
    /\ pc = "open"
    /\ opened' = TRUE
    /\ IF squashfs_opens
       THEN pc' = "select" /\ result' = result
       ELSE Return(ErrResult("open squashfs", 0))
    /\ UNCHANGED <<inputs, crates_filter, nodes, units, full, fs,
                   first_failure, faults, run, prev_tree>>

\* lib.rs 57-65 / async_unsquash.rs 61-74: collect the selected nodes; the
\* async strategy makes one future per node, unpolled.
CollectNodes ==
    /\ pc = "select"
    /\ nodes' = SelectNodes(files, crates_filter)
    /\ units' = [i \in 1..Len(nodes') |->
                    Unit(IF strategy = "blocking" THEN "queued" ELSE "new", <<>>, "")]
    /\ pc' = "run"
    /\ UNCHANGED <<inputs, crates_filter, opened, full, fs, result,
                   first_failure, faults, run, prev_tree>>

\* ------------------------------------------- parallel strategy (lib.rs)
Special == {"CharacterDevice", "BlockDevice", "NamedPipe", "Socket"}

Finished == {"ok", "err", "panicked", "dropped"}

\* Units a worker of the pool is inside of.
Active == { i \in DOMAIN units : units[i].pc \notin Finished \cup {"queued"} }

CountFault(o) == faults' = IF o = "fault" THEN faults + 1 ELSE faults

NoteFailure(i) == first_failure' = IF first_failure = 0 THEN i ELSE first_failure

\* The closure returned Err: try_for_each records it and raises its stop flag.
BlockingFail(i, msg, f) ==
    /\ units' = [units EXCEPT ![i] = Unit("err", <<>>, msg)]
    /\ full' = TRUE
    /\ fs' = f
    /\ NoteFailure(i)

BlockingAdvance(i, upc, buf, f) ==
    /\ units' = [units EXCEPT ![i] = Unit(upc, buf, "")]
    /\ fs' = f
    /\ UNCHANGED <<full, first_failure>>

\* One fallible call followed by `.with_context(..)?`.
BlockingTry(i, o, r, msg, upc, buf) ==
    /\ CountFault(o)
    /\ IF o = "ok" /\ r.ok
       THEN BlockingAdvance(i, upc, buf, r.fs)
       ELSE BlockingFail(i, msg, IF o = "fault" THEN fs ELSE r.fs)
    /\ UNCHANGED <<inputs, pc, crates_filter, opened, nodes, result, run, prev_tree>>

InBlocking(i, upc) ==
    /\ pc = "run"
    /\ strategy = "blocking"
    /\ i \in DOMAIN units
    /\ units[i].pc = upc

\* lib.rs 67-69, 78-87: a free worker takes a node nobody has taken, unless
\* the stop flag is up, and creates the parent chain of its destination.
\* Any free worker may take any untaken node: rayon's splitting fixes no order.
BlockingCreateParent(i) ==
    /\ InBlocking(i, "queued")
    /\ ~full
    /\ Cardinality(Active) < NumWorkers
    /\ \E o \in Outcomes :
         BlockingTry(i, o, CreateDirAll(fs, Parent(DestPath(nodes[i])), umask),
                     "create dir to unpack", "match", <<>>)

\* lib.rs 91-92
BlockingFileCreate(i) ==
    /\ InBlocking(i, "match")
    /\ nodes[i].inner.kind = "File"
    /\ \E o \in Outcomes :
         BlockingTry(i, o, FileCreate(fs, DestPath(nodes[i]), umask),
                     "create file to unpack", "copy", <<>>)

\* lib.rs 93-98: io::copy into a BufWriter of capacity file_size.  The first k
\* bytes have reached the file when copy returns, the rest wait in the buffer.
BlockingCopy(i) ==
    /\ InBlocking(i, "copy")
    /\ \E o \in Outcomes : \E k \in 0..Len(nodes[i].inner.data) :
         LET data == nodes[i].inner.data
             f == WriteBytes(fs, DestPath(nodes[i]), SubSeq(data, 1, k))
         IN BlockingTry(i, o, IF o = "ok" THEN Ok(f) ELSE Err(f),
                        "extract file into", "chmod", SubSeq(data, k + 1, Len(data)))

\* lib.rs 99-100; on the error path the writer is dropped, which flushes it.
BlockingChmodFile(i) ==
    /\ InBlocking(i, "chmod")
    /\ nodes[i].inner.kind = "File"
    /\ \E o \in Outcomes :
         LET r == SetPermissions(fs, DestPath(nodes[i]), Mode644)
             flushed == WriteBytes(r.fs, DestPath(nodes[i]), units[i].buf)
         IN BlockingTry(i, o, IF o = "ok" /\ r.ok THEN r ELSE Err(flushed),
                        "chmod 0o644", "drop", units[i].buf)

\* lib.rs 101: the BufWriter goes out of scope after the chmod; its Drop
\* flushes what is buffered and ignores a failure of that write.
BlockingDropWriter(i) ==
    /\ InBlocking(i, "drop")
    /\ \E o \in Outcomes :
         /\ CountFault(o)
         /\ BlockingAdvance(i, "ok", <<>>,
                IF o = "ok" THEN WriteBytes(fs, DestPath(nodes[i]), units[i].buf) ELSE fs)
    /\ UNCHANGED <<inputs, pc, crates_filter, opened, nodes, result, run, prev_tree>>

\* lib.rs 102-104
BlockingSymlink(i) ==
    /\ InBlocking(i, "match")
    /\ nodes[i].inner.kind = "Symlink"
    /\ \E o \in Outcomes :
         BlockingTry(i, o, SymlinkCreate(fs, nodes[i].inner.link, DestPath(nodes[i])),
                     "symlink file into", "lchmod", <<>>)

\* lib.rs 105-106
BlockingLchmod(i) ==
    /\ InBlocking(i, "lchmod")
    /\ \E o \in Outcomes :
         BlockingTry(i, o, lchmod(fs, DestPath(nodes[i]), Mode644),
                     "lchmod 0o644", "ok", <<>>)

\* A Dir arm that leaves a directory it finds already made as it is.
BlockingDirSkipExisting(i) ==
    /\ InBlocking(i, "match")
    /\ nodes[i].inner.kind = "Dir"
    /\ \E o \in Outcomes :
         BlockingTry(i, o, CreateDirAll(fs, DestPath(nodes[i]), umask),
                     "create dir into",
                     IF IsDir(fs, DestPath(nodes[i])) THEN "ok" ELSE "chmod", <<>>)

\* lib.rs 108-110
BlockingDir(i) ==
    /\ InBlocking(i, "match")
    /\ nodes[i].inner.kind = "Dir"
    /\ \E o \in Outcomes :
         BlockingTry(i, o, CreateDirAll(fs, DestPath(nodes[i]), umask),
                     "create dir into", "chmod", <<>>)

\* lib.rs 111-112
BlockingChmodDir(i) ==
    /\ InBlocking(i, "chmod")
    /\ nodes[i].inner.kind = "Dir"
    /\ \E o \in Outcomes :
         BlockingTry(i, o, SetPermissions(fs, DestPath(nodes[i]), Mode755),
                     "chmod 0o755", "ok", <<>>)

\* lib.rs 114-117: unimplemented!() panics in the worker.  rayon carries the
\* panic to the caller when the pool's work is over; the stop flag stays down.
BlockingUnimplemented(i) ==
    /\ InBlocking(i, "match")
    /\ nodes[i].inner.kind \in Special
    /\ units' = [units EXCEPT ![i] = Unit("panicked", <<>>, "not implemented")]
    /\ NoteFailure(i)
    /\ UNCHANGED <<inputs, pc, crates_filter, opened, nodes, full, fs, result,
                   faults, run, prev_tree>>

\* lib.rs 67-69: the unwinding worker abandons the nodes left in its own part
\* of the split; the parts other workers hold are still run.
BlockingUnwind(i) ==
    /\ InBlocking(i, "queued")
    /\ \E j \in DOMAIN units : units[j].pc = "panicked"
    /\ units' = [units EXCEPT ![i] = Unit("dropped", <<>>, "")]
    /\ UNCHANGED <<inputs, pc, crates_filter, opened, nodes, full, fs, result,
                   first_failure, faults, run, prev_tree>>

\* A join that returns as soon as no worker is inside a node, whether or not
\* nodes are still queued.
BlockingJoinEarly ==
    /\ pc = "run"
    /\ strategy = "blocking"
    /\ Active = {}
    /\ \/ \E i \in DOMAIN units :
            /\ units[i].pc = "panicked"
            /\ Return(PanicResult(i))
       \/ /\ \A j \in DOMAIN units : units[j].pc # "panicked"
          /\ \E i \in DOMAIN units :
               /\ units[i].pc = "err"
               /\ Return(ErrResult(units[i].msg, i))
       \/ /\ \A j \in DOMAIN units : units[j].pc \in {"ok", "queued"}
          /\ Return(OkResult)
    /\ UNCHANGED <<inputs, crates_filter, opened, nodes, units, full, fs,
                   first_failure, faults, run, prev_tree>>

\* lib.rs 67-70: try_for_each returns when no worker is inside a node and no
\* node is left to take.  A panic is resumed in the caller; of several Errs
\* rayon leaves unspecified which one is returned.
BlockingJoin ==
    /\ pc = "run"
    /\ strategy = "blocking"
    /\ Active = {}
    /\ full \/ \A i \in DOMAIN units : units[i].pc # "queued"
    /\ \/ \E i \in DOMAIN units :
            /\ units[i].pc = "panicked"
            /\ Return(PanicResult(i))
       \/ /\ \A j \in DOMAIN units : units[j].pc # "panicked"
          /\ \E i \in DOMAIN units :
               /\ units[i].pc = "err"
               /\ Return(ErrResult(units[i].msg, i))
       \/ /\ \A j \in DOMAIN units : units[j].pc = "ok"
          /\ Return(OkResult)
    /\ UNCHANGED <<inputs, crates_filter, opened, nodes, units, full, fs,
                   first_failure, faults, run, prev_tree>>

\* --------------------------------- concurrent strategy (async_unsquash.rs)
\* The futures polled as if each were a task of its own: a poll of one can
\* begin while another is in the middle of its poll.
InAsyncSpawned(i, upc) ==
    /\ pc = "run"
    /\ strategy = "async"
    /\ i \in DOMAIN units
    /\ units[i].pc = upc

\* async_unsquash.rs 71-77: the futures live in one FuturesUnordered that the
\* calling task polls one at a time; a future is polled only when no other is
\* in the middle of a poll (the only place a poll spans two steps is "copy").
InAsync(i, upc) ==
    /\ pc = "run"
    /\ strategy = "async"
    /\ i \in DOMAIN units
    /\ units[i].pc = upc
    /\ \A j \in DOMAIN units : j # i => units[j].pc # "copy"

\* Dropping a future drops its BufWriter, which flushes what it holds.
RECURSIVE FlushAll(_, _, _)
FlushAll(f, us, i) ==
    IF i > Len(us) THEN f
    ELSE FlushAll(IF us[i].buf # <<>> THEN WriteBytes(f, DestPath(nodes[i]), us[i].buf) ELSE f,
                  us, i + 1)

\* What is left of the futures when the call returns early: an operation
\* already handed to the blocking pool stays there, everything else is gone.
DropFutures(us, i, upc, msg) ==
    [j \in DOMAIN us |->
        IF j = i THEN Unit(upc, <<>>, msg)
        ELSE IF us[j].pc \in {"mkdir_pending", "chmod_pending"}
             THEN Unit(us[j].pc, <<>>, "")
        ELSE IF us[j].pc = "ok" THEN us[j]
        ELSE Unit("dropped", <<>>, "")]

\* async_unsquash.rs 75-77: `res?` returns the first Err that completes, and
\* a panic unwinds through the loop; either way the other futures are dropped.
AsyncAbort(i, r, f) ==
    /\ Return(r)
    /\ units' = DropFutures(units, i, IF r.tag = "Panic" THEN "panicked" ELSE "err", r.msg)
    /\ fs' = FlushAll(f, [units EXCEPT ![i].buf = <<>>], 1)
    /\ NoteFailure(i)

AsyncAdvance(i, upc, buf, f) ==
    /\ units' = [units EXCEPT ![i] = Unit(upc, buf, "")]
    /\ fs' = f
    /\ UNCHANGED <<pc, result, first_failure>>

\* async_unsquash.rs 92-97: the first poll hands create_dir_all of the parent
\* chain to the blocking pool and suspends.
AsyncPollNew(i) ==
    /\ InAsync(i, "new")
    /\ AsyncAdvance(i, "mkdir_pending", <<>>, fs)
    /\ UNCHANGED <<inputs, crates_filter, opened, nodes, full, faults, run, prev_tree>>

\* tokio::fs::create_dir_all running on the blocking pool; it runs whether or
\* not the call is still waiting for it.
PoolCreateDirAll(i) ==
    /\ strategy = "async"
    /\ i \in DOMAIN units
    /\ units[i].pc = "mkdir_pending"
    /\ \E o \in Outcomes :
         LET r == CreateDirAll(fs, Parent(DestPath(nodes[i])), umask)
         IN /\ CountFault(o)
            /\ IF o = "ok" /\ r.ok
               THEN units' = [units EXCEPT ![i].pc = "mkdir_ready"] /\ fs' = r.fs
               ELSE /\ units' = [units EXCEPT ![i].pc = "mkdir_failed"]
                    /\ fs' = IF o = "fault" THEN fs ELSE r.fs
    /\ UNCHANGED <<inputs, pc, crates_filter, opened, nodes, full, result,
                   first_failure, run, prev_tree>>

\* async_unsquash.rs 98: the awaited create_dir_all failed
AsyncCreateParentFailed(i) ==
    /\ InAsync(i, "mkdir_failed")
    /\ AsyncAbort(i, ErrResult("create dir to unpack", i), fs)
    /\ UNCHANGED <<inputs, crates_filter, opened, nodes, full, faults, run, prev_tree>>

\* async_unsquash.rs 101-103: File::create, a synchronous call inside the poll
AsyncFileCreate(i) ==
    /\ InAsync(i, "mkdir_ready")
    /\ nodes[i].inner.kind = "File"
    /\ \E o \in Outcomes :
         LET c == FileCreate(fs, DestPath(nodes[i]), umask)
         IN /\ CountFault(o)
            /\ IF o = "ok" /\ c.ok
               THEN AsyncAdvance(i, "copy", <<>>, c.fs)
               ELSE AsyncAbort(i, ErrResult("create file to unpack", i), fs)
    /\ UNCHANGED <<inputs, crates_filter, opened, nodes, full, run, prev_tree>>

\* async_unsquash.rs 104-113: the same poll goes on with the synchronous
\* io::copy and ends by handing set_permissions to the pool, where it
\* suspends; there is no await between File::create and this point.
AsyncCopy(i) ==
    /\ InAsync(i, "copy")
    /\ \E o \in Outcomes : \E k \in 0..Len(nodes[i].inner.data) :
         LET data == nodes[i].inner.data
             f == WriteBytes(fs, DestPath(nodes[i]), SubSeq(data, 1, k))
         IN /\ CountFault(o)
            /\ IF o = "ok"
               THEN AsyncAdvance(i, "chmod_pending", SubSeq(data, k + 1, Len(data)), f)
               ELSE AsyncAbort(i, ErrResult("extract file into", i), f)
    /\ UNCHANGED <<inputs, crates_filter, opened, nodes, full, run, prev_tree>>

\* An extract_node that skips the kinds it does not handle.
AsyncSkipUnsupported(i) ==
    /\ InAsync(i, "mkdir_ready")
    /\ nodes[i].inner.kind # "File"
    /\ AsyncAdvance(i, "ok", <<>>, fs)
    /\ UNCHANGED <<inputs, crates_filter, opened, nodes, full, faults, run, prev_tree>>

\* async_unsquash.rs 116-121: unimplemented!() panics inside the poll
AsyncUnimplemented(i) ==
    /\ InAsync(i, "mkdir_ready")
    /\ nodes[i].inner.kind # "File"
    /\ AsyncAbort(i, PanicResult(i), fs)
    /\ UNCHANGED <<inputs, crates_filter, opened, nodes, full, faults, run, prev_tree>>

\* A pool operation that reports success and leaves the mode File::create gave.
PoolSetPermissionsSkipped(i) ==
    /\ strategy = "async"
    /\ i \in DOMAIN units
    /\ units[i].pc = "chmod_pending"
    /\ units' = [units EXCEPT ![i].pc = "chmod_ready"]
    /\ UNCHANGED <<inputs, pc, crates_filter, opened, nodes, full, fs, result,
                   first_failure, faults, run, prev_tree>>

\* tokio::fs::set_permissions running on the blocking pool
PoolSetPermissions(i) ==
    /\ strategy = "async"
    /\ i \in DOMAIN units
    /\ units[i].pc = "chmod_pending"
    /\ \E o \in Outcomes :
         LET r == SetPermissions(fs, DestPath(nodes[i]), Mode644)
         IN /\ CountFault(o)
            /\ IF o = "ok" /\ r.ok
               THEN units' = [units EXCEPT ![i].pc = "chmod_ready"] /\ fs' = r.fs
               ELSE units' = [units EXCEPT ![i].pc = "chmod_failed"] /\ fs' = fs
    /\ UNCHANGED <<inputs, pc, crates_filter, opened, nodes, full, result,
                   first_failure, run, prev_tree>>

\* async_unsquash.rs 114: the awaited set_permissions failed
AsyncChmodFailed(i) ==
    /\ InAsync(i, "chmod_failed")
    /\ AsyncAbort(i, ErrResult("chmod 0o644", i),
                  WriteBytes(fs, DestPath(nodes[i]), units[i].buf))
    /\ UNCHANGED <<inputs, crates_filter, opened, nodes, full, faults, run, prev_tree>>

\* async_unsquash.rs 115, 124: the writer is dropped (flushed, a failure of
\* the write ignored) and the future is Ready(Ok).
AsyncDropWriter(i) ==
    /\ InAsync(i, "chmod_ready")
    /\ \E o \in Outcomes :
         /\ CountFault(o)
         /\ AsyncAdvance(i, "ok", <<>>,
                IF o = "ok" THEN WriteBytes(fs, DestPath(nodes[i]), units[i].buf) ELSE fs)
    /\ UNCHANGED <<inputs, crates_filter, opened, nodes, full, run, prev_tree>>

\* async_unsquash.rs 75-79: futs.next() is None once every future is Ready
AsyncDone ==
    /\ pc = "run"
    /\ strategy = "async"
    /\ \A i \in DOMAIN units : units[i].pc = "ok"
    /\ Return(OkResult)
    /\ UNCHANGED <<inputs, crates_filter, opened, nodes, units, full, fs,
                   first_failure, faults, run, prev_tree>>

\* The caller runs the parallel extraction again on the same destination.
Rerun ==
    /\ pc = "done"
    /\ strategy = "blocking"
    /\ result.tag = "Ok"
    /\ run < MaxRuns
    /\ run' = run + 1
    /\ prev_tree' = fs
    /\ pc' = "ensure"
    /\ crates_filter' = None
    /\ opened' = FALSE
    /\ nodes' = <<>>
    /\ units' = <<>>
    /\ full' = FALSE
    /\ result' = NoResult
    /\ first_failure' = 0
    /\ UNCHANGED <<inputs, fs, faults>>

Next ==
    \/ EnsureExists
    \/ BuildFilter
    \/ OpenArchive
    \/ CollectNodes
    \/ \E i \in DOMAIN units : BlockingCreateParent(i)
    \/ \E i \in DOMAIN units : BlockingFileCreate(i)
    \/ \E i \in DOMAIN units : BlockingCopy(i)
    \/ \E i \in DOMAIN units : BlockingChmodFile(i)
    \/ \E i \in DOMAIN units : BlockingDropWriter(i)
    \/ \E i \in DOMAIN units : BlockingSymlink(i)
    \/ \E i \in DOMAIN units : BlockingLchmod(i)
    \/ \E i \in DOMAIN units : BlockingDir(i)
    \/ \E i \in DOMAIN units : BlockingChmodDir(i)
    \/ \E i \in DOMAIN units : BlockingUnimplemented(i)
    \/ \E i \in DOMAIN units : BlockingUnwind(i)
    \/ BlockingJoin
    \/ \E i \in DOMAIN units : AsyncPollNew(i)
    \/ \E i \in DOMAIN units : PoolCreateDirAll(i)
    \/ \E i \in DOMAIN units : AsyncCreateParentFailed(i)
    \/ \E i \in DOMAIN units : AsyncFileCreate(i)
    \/ \E i \in DOMAIN units : AsyncCopy(i)
    \/ \E i \in DOMAIN units : AsyncUnimplemented(i)
    \/ \E i \in DOMAIN units : PoolSetPermissions(i)
    \/ \E i \in DOMAIN units : AsyncChmodFailed(i)
    \/ \E i \in DOMAIN units : AsyncDropWriter(i)
    \/ AsyncDone
    \/ Rerun

Spec == Init /\ [][Next]_vars

\* The rayon workers and the tokio runtime keep running what is runnable: the
\* program does not stop while a step of it is possible.
FairSpec == Spec /\ WF_vars(Next)

\* ============================================================= properties

\* What the documentation calls the ancestor closure of "/index/<name>" and
\* "/salts/<name>": the name appended below the namespace directory.
NamespaceClosure(name) ==
    Ancestors(Abs(<<"index">> \o name.components))
        \cup Ancestors(Abs(<<"salts">> \o name.components))

\* C1: for every present set of names the expanded filter is exactly the union
\* of the ancestor closures of /index/<name> and /salts/<name>.
C1_PermittedPathSet ==
    crates_filter.some =>
        crates_filter.val = UNION { NamespaceClosure(name) : name \in name_filter.val }

\* C1, the part the code keeps: the same for names that are relative paths,
\* {"foo"} giving {/, /index, /index/foo, /salts, /salts/foo}.
C1_RelativeNames ==
    /\ (crates_filter.some /\ \A name \in name_filter.val : ~name.absolute) =>
          crates_filter.val = UNION { NamespaceClosure(name) : name \in name_filter.val }
    /\ (crates_filter.some /\ name_filter.val = {Rel(<<"foo">>)}) =>
          crates_filter.val = { Abs(<<>>), Abs(<<"index">>), Abs(<<"index", "foo">>),
                                Abs(<<"salts">>), Abs(<<"salts", "foo">>) }

EmptyFilterCall == name_filter.some /\ name_filter.val = {}

\* C2 as stated: a call with a present-but-empty name filter writes nothing,
\* does not open the archive and returns success.
C2_EmptyFilterSucceeds ==
    (EmptyFilterCall /\ pc = "done") =>
        /\ result.tag = "Ok"
        /\ fs = prev_tree
        /\ ~opened

\* C2 amended: a call with a present-but-empty name filter never writes and
\* never opens the archive; it returns success when the archive path exists
\* (openable or not) and the archive-not-found error when it does not.
C2_EmptyFilterNoOp ==
    EmptyFilterCall =>
        /\ fs = prev_tree
        /\ ~opened
        /\ pc = "done" =>
              IF squashfs_exists
              THEN result.tag = "Ok"
              ELSE result = ErrResult("specified squashfs archive does not exist", 0)

C2_Witness ==
    /\ EmptyFilterCall
    /\ pc = "done"
    /\ squashfs_exists
    /\ ~squashfs_opens
    /\ result.tag = "Ok"

\* C3: materializing a CharDevice, BlockDevice, NamedPipe or Socket entry ends
\* the call with a typed error returned as its Result.
C3_UnsupportedIsTypedError ==
    (pc = "done" /\ \E i \in DOMAIN units : units[i].pc = "panicked") =>
        result.tag = "Err"

Kinds(ns) == { ns[i].inner.kind : i \in 1..Len(ns) }

\* C4: running the parallel extraction a second time on the same destination,
\* with the same archive and filter, succeeds and leaves the tree of the first
\* run, for every selection of File, Directory and Symlink entries.
C4_SecondRunSameTree ==
    ( /\ strategy = "blocking"
      /\ run > 1
      /\ pc = "done"
      /\ faults = 0
      /\ Kinds(nodes) \subseteq {"File", "Dir", "Symlink"} ) =>
        /\ result.tag = "Ok"
        /\ fs = prev_tree

Unstarted == {"queued", "new"}

\* C5: in both strategies the first materialization failure is the result of
\* the call, nothing that has not started is started once a failure has
\* occurred, nothing is retried and nothing written is rolled back.
C5_FirstFailureAborts ==
    [][ pc = "run" =>
          /\ first_failure # 0 =>
                \A i \in DOMAIN units :
                    units[i].pc \in Unstarted => units'[i].pc \in Unstarted \cup {"dropped"}
          /\ (pc' = "done" /\ first_failure' # 0) => result'.node = first_failure'
          /\ \A i \in DOMAIN units :
                units[i].pc \in Finished => units'[i].pc = units[i].pc
          /\ \A p \in DOMAIN fs : p \in DOMAIN fs' ]_vars

\* Indices of the archive entries the filter admits by exact membership.
Admitted ==
    { k \in 1..Len(files) : crates_filter.some => files[k].fullpath \in crates_filter.val }

\* C6: the selected sequence holds exactly the archive entries whose full path
\* is a member of the permitted set (every entry when the filter is absent),
\* in the archive's order.
C6_NodeSelection ==
    pc = "run" =>
        /\ Len(nodes) = Cardinality(Admitted)
        /\ \A j \in 1..Len(nodes) : \E k \in Admitted :
              /\ Cardinality({ m \in Admitted : m <= k }) = j
              /\ nodes[j] = files[k]
        /\ ~crates_filter.some => nodes = files

C6_Witness ==
    /\ pc = "run"
    /\ crates_filter.some
    /\ Len(nodes) > 1
    /\ Len(nodes) < Len(files)

\* C7: the concurrent strategy never returns success when a Directory, a
\* Symlink or a device/pipe/socket entry is selected: absent an I/O failure
\* the call aborts at that entry as not implemented, and only File entries are
\* ever materialized; the parallel strategy materializes the Directory and
\* Symlink entries of such a selection.
C7_ConcurrentFilesOnly ==
    /\ (strategy = "async" /\ pc = "done" /\ Kinds(nodes) \ {"File"} # {}) =>
          /\ result.tag \in {"Err", "Panic"}
          /\ faults = 0 =>
                /\ result.tag = "Panic"
                /\ nodes[result.node].inner.kind # "File"
    /\ strategy = "async" =>
          \A i \in DOMAIN units : units[i].pc = "ok" => nodes[i].inner.kind = "File"
    /\ ( /\ strategy = "blocking"
         /\ pc = "done"
         /\ run = 1
         /\ faults = 0
         /\ nodes # <<>>
         /\ Kinds(nodes) \subseteq {"File", "Dir", "Symlink"} ) =>
          /\ result.tag = "Ok"
          /\ \A i \in 1..Len(nodes) :
                /\ nodes[i].inner.kind = "Dir" =>
                      /\ IsDir(fs, DestPath(nodes[i]))
                      /\ fs[DestPath(nodes[i])].mode = Mode755
                /\ nodes[i].inner.kind = "Symlink" => IsSymlink(fs, DestPath(nodes[i]))

C7_Witness ==
    /\ strategy = "async"
    /\ pc = "done"
    /\ faults = 0
    /\ result.tag = "Panic"
    /\ nodes[result.node].inner.kind = "Symlink"
    /\ "File" \in Kinds(nodes)

\* C8: after a successful call every selected File entry is a regular file at
\* its destination path, holding exactly the entry's bytes, with mode 0o644.
C8_FileContentAndMode ==
    (pc = "done" /\ result.tag = "Ok") =>
        \A i \in 1..Len(nodes) :
            nodes[i].inner.kind = "File" =>
                /\ Exists(fs, DestPath(nodes[i]))
                /\ fs[DestPath(nodes[i])] = FileObj(Mode644, nodes[i].inner.data)

\* C9: when the archive path does not exist the call fails with the
\* archive-not-found error, whatever the filter, and it neither opens the
\* archive nor writes before that.
C9_ArchiveNotFound ==
    ~squashfs_exists =>
        /\ ~opened
        /\ fs = prev_tree
        /\ pc \in {"ensure", "done"}
        /\ pc = "done" =>
              result = ErrResult("specified squashfs archive does not exist", 0)

C9_Witness ==
    /\ ~squashfs_exists
    /\ pc = "done"
    /\ EmptyFilterCall
    /\ result.tag = "Err"

\* C10: in the parallel strategy a Symlink entry becomes a link whose target is
\* the stored string, unvalidated: a dangling or absolute target is written
\* as stored and is no reason for the materialization to fail.
C10_SymlinkTargetVerbatim ==
    strategy = "blocking" =>
        \A i \in DOMAIN units :
            nodes[i].inner.kind = "Symlink" =>
                /\ units[i].pc \in {"lchmod", "ok"} =>
                      /\ IsSymlink(fs, DestPath(nodes[i]))
                      /\ fs[DestPath(nodes[i])].link = nodes[i].inner.link
                /\ (run = 1 /\ faults = 0) => units[i].pc # "err"

C10_Witness ==
    /\ strategy = "blocking"
    /\ \E i \in DOMAIN units :
          /\ units[i].pc = "ok"
          /\ nodes[i].inner.link = "missing"
          /\ fs[DestPath(nodes[i])].link = "missing"
    /\ \E i \in DOMAIN units :
          /\ units[i].pc = "ok"
          /\ nodes[i].inner.link = "/etc/passwd"
          /\ fs[DestPath(nodes[i])].link = "/etc/passwd"

\* lib.rs 73-121: extract_node_blocking run from its first statement to its
\* return with nothing else touching the tree and no I/O failure.
ExtractNodeBlocking(f, node, um) ==
    LET dp == DestPath(node)
        parent == CreateDirAll(f, Parent(dp), um)
    IN IF ~parent.ok THEN parent
       ELSE IF node.inner.kind = "File"
       THEN LET fd == FileCreate(parent.fs, dp, um)
            IN IF ~fd.ok THEN fd
               ELSE SetPermissions(WriteBytes(fd.fs, dp, node.inner.data), dp, Mode644)
       ELSE IF node.inner.kind = "Symlink"
       THEN LET ln == SymlinkCreate(parent.fs, node.inner.link, dp)
            IN IF ~ln.ok THEN ln ELSE lchmod(ln.fs, dp, Mode644)
       ELSE IF node.inner.kind = "Dir"
       THEN LET dir == CreateDirAll(parent.fs, dp, um)
            IN IF ~dir.ok THEN dir ELSE SetPermissions(dir.fs, dp, Mode755)
       ELSE Err(parent.fs)

\* The nodes materialized one after the other, in the archive's order.
RECURSIVE ExtractInOrder(_, _, _, _)
ExtractInOrder(f, ns, i, um) ==
    IF i > Len(ns) THEN Ok(f)
    ELSE LET r == ExtractNodeBlocking(f, ns[i], um)
         IN IF r.ok THEN ExtractInOrder(r.fs, ns, i + 1, um) ELSE r

\* C11: in the parallel strategy, for File, Directory and Symlink entries,
\* every interleaving of the workers' steps ends in success with the tree a
\* sequential run leaves; no worker fails on a parent another worker made,
\* and a Directory entry ends with mode 0o755 whoever made the directory.
C11_InterleavingsAgree ==
    ( /\ strategy = "blocking"
      /\ squashfs_opens
      /\ run = 1
      /\ faults = 0
      /\ Kinds(nodes) \subseteq {"File", "Dir", "Symlink"} ) =>
        /\ \A i \in DOMAIN units :
              /\ units[i].pc # "err"
              /\ (units[i].pc = "ok" /\ nodes[i].inner.kind = "Dir") =>
                    fs[DestPath(nodes[i])] = DirObj(Mode755)
        /\ pc = "done" =>
              /\ result.tag = "Ok"
              /\ ExtractInOrder(prev_tree, nodes, 1, umask).ok
              /\ fs = ExtractInOrder(prev_tree, nodes, 1, umask).fs

\* Two workers are inside their nodes; one of them is about to create a
\* Directory entry that the other has already made as its parent, with the
\* umask's mode.
C11_Witness ==
    /\ strategy = "blocking"
    /\ faults = 0
    /\ Cardinality(Active) = 2
    /\ \E i \in DOMAIN units :
          /\ nodes[i].inner.kind = "Dir"
          /\ units[i].pc = "match"
          /\ IsDir(fs, DestPath(nodes[i]))
          /\ fs[DestPath(nodes[i])].mode # Mode755
          /\ \E j \in Active :
                /\ Parent(DestPath(nodes[j])) = DestPath(nodes[i])
                /\ units[j].pc # "match"

\* The paths of the host tree this call has created or modified so far.
Touched == { p \in DOMAIN fs : p \notin DOMAIN prev_tree \/ fs[p] # prev_tree[p] }

\* The archive path a path under the destination root stands for.
ArchivePath(p) ==
    Abs(SubSeq(p.components, Len(dest.components) + 1, Len(p.components)))

ModeSet == {"drop", "chmod_ready", "ok"}

\* C13: for a File entry, in both strategies, the parent chain is made before
\* the file, the file before its content, and the mode is set to 0o644 only
\* once every content byte is in the file; a content write that fails makes
\* the call fail.
C13_FileStepOrder ==
    \A i \in DOMAIN units :
        nodes[i].inner.kind = "File" =>
            LET dp == DestPath(nodes[i])
            IN /\ Exists(fs, dp) => IsDir(fs, Parent(dp))
               /\ units[i].pc \in ModeSet =>
                     /\ Exists(fs, dp)
                     /\ fs[dp].mode = Mode644
                     /\ (units[i].pc # "ok" \/ faults = 0) =>
                           fs[dp].data = nodes[i].inner.data
               /\ (pc = "done" /\ result.tag = "Ok") =>
                     fs[dp].data = nodes[i].inner.data

\* The positions at which a unit's operation is with the blocking pool.
Suspended == {"mkdir_pending", "chmod_pending"}

\* C14: in the concurrent strategy, while a unit is between File::create and
\* the end of its content copy, every step is that unit's own or is the pool
\* finishing an operation a suspended unit handed to it: no other unit is
\* polled, none starts, resumes, completes or fails.
C14_NoYieldMidCopy ==
    [][ \A i \in DOMAIN units :
          (strategy = "async" /\ units[i].pc = "copy") =>
              \/ /\ units'[i].pc \in {"chmod_pending", "err"}
                 /\ \A j \in DOMAIN units \ {i} :
                       units'[j].pc \in {units[j].pc, "dropped"}
              \/ /\ units'[i] = units[i]
                 /\ pc' = pc
                 /\ \A j \in DOMAIN units \ {i} :
                       units'[j].pc # units[j].pc => units[j].pc \in Suspended ]_vars

\* One unit is between File::create and the end of its copy while another,
\* which copied earlier and suspended at set_permissions, is ready to go on,
\* and a third is ready after its parent-directory creation.
C14_Witness ==
    /\ strategy = "async"
    /\ pc = "run"
    /\ \E i, j, k \in DOMAIN units :
          /\ units[i].pc = "copy"
          /\ fs[DestPath(nodes[i])].data = <<>>
          /\ units[j].pc = "chmod_ready"
          /\ units[k].pc = "mkdir_ready"

\* The kinds a strategy materializes.
SupportedKinds ==
    IF strategy = "blocking" THEN {"File", "Dir", "Symlink"} ELSE {"File"}

\* Every entry the call's inputs select is of a kind its strategy supports.
AllSupported ==
    Kinds(SelectNodes(files, ExpandFilter(name_filter))) \subseteq SupportedKinds

\* Some I/O step of the call has failed.
SomeStepFailed ==
    \/ faults > 0
    \/ result.tag = "Err"
    \/ \E i \in DOMAIN units : units[i].pc \in {"err", "mkdir_failed", "chmod_failed"}

\* The call has returned success with every selected entry materialized and
\* nothing left queued, in flight or buffered.
ReturnedComplete ==
    /\ pc = "done"
    /\ result.tag = "Ok"
    /\ nodes = SelectNodes(files, ExpandFilter(name_filter))
    /\ DOMAIN units = DOMAIN nodes
    /\ \A i \in DOMAIN units : units[i] = Unit("ok", <<>>, "")
    /\ \A i \in DOMAIN nodes : Exists(fs, DestPath(nodes[i]))

\* C15: in both strategies, when every selected entry is of a supported kind
\* the call eventually returns success unless an I/O step fails; a success is
\* returned only with every selected entry materialized and nothing pending,
\* and an entry that has been materialized is not gone through again in that
\* call.
C15_EventuallyComplete ==
    /\ AllSupported ~> (ReturnedComplete \/ SomeStepFailed)
    /\ []((pc = "done" /\ result.tag = "Ok") => ReturnedComplete)
    /\ [][ \A i \in DOMAIN units :
              (units[i].pc = "ok" /\ run' = run) => units'[i] = units[i] ]_vars

\* A call over more entries than there are workers has returned success with
\* no failed step.
C15_Witness ==
    /\ ReturnedComplete
    /\ faults = 0
    /\ Len(nodes) > NumWorkers

\* C16: whichever strategy runs, the expanded filter and the selected sequence
\* are the same functions of the archive and the name filter; and when every
\* selected entry is a File, a first call with no failed step succeeds and
\* leaves the one tree the entries written in order give: each file at its
\* destination path with the entry's bytes and mode 0o644.
C16_StrategiesAgree ==
    /\ pc \in {"open", "select", "run"} => crates_filter = ExpandFilter(name_filter)
    /\ pc = "run" => nodes = SelectNodes(files, ExpandFilter(name_filter))
    /\ ( /\ pc = "done"
         /\ squashfs_opens
         /\ run = 1
         /\ faults = 0
         /\ Kinds(SelectNodes(files, ExpandFilter(name_filter))) \subseteq {"File"} ) =>
            /\ result.tag = "Ok"
            /\ fs = ExtractInOrder(prev_tree, SelectNodes(files, ExpandFilter(name_filter)),
                                   1, umask).fs
            /\ \A i \in DOMAIN nodes :
                  fs[DestPath(nodes[i])] = FileObj(Mode644, nodes[i].inner.data)

\* The concurrent strategy has returned success over several File entries
\* whose mode File::create had set otherwise.
C16_Witness ==
    /\ strategy = "async"
    /\ pc = "done"
    /\ result.tag = "Ok"
    /\ faults = 0
    /\ FileCreateMode(umask) # Mode644
    /\ Len(nodes) >= 2
    /\ Kinds(nodes) = {"File"}
====
